---------------------------- MODULE Spec2Model ----------------------------
(***************************************************************************)
(* Model of streamlit_app.py: the rule-scoring engine (rule_score), the    *)
(* global knockout evaluator (_apply_global_knockout), the per-row policy  *)
(* merge, bucket_level and the batch e-mail loop.                          *)
(*                                                                         *)
(* Text is a sequence of one-character strings.  The Thai/English phrases  *)
(* of the source are long; each configured phrase is represented by a      *)
(* short token over a small alphabet (the legend is next to each table).   *)
(* Scores and weights are integers in hundredths (0.5 is 50, -2.5 is       *)
(* -250); every configured number of the source is a multiple of 0.1.      *)
(***************************************************************************)
EXTENDS Integers, Sequences, FiniteSets, TLC

VARIABLES
    pc,        \* position of the modelled run
    blob,      \* _apply_global_knockout: the text blob argument
    gcfg,      \* _apply_global_knockout: the cfg argument
    gk,        \* _apply_global_knockout: what the call returned
    dept_cfg,  \* DEPARTMENTS_CFG[department], the selected department
    rec,       \* the applicant record (the row) being scored
    mcfg,      \* merged_cfg built for the row
    res,       \* what rule_score returned for the row
    prev,      \* what rule_score returned for the record before a skill was added
    added,     \* the must-have skill added to the record, <<>> when none was
    final_priority, \* bucket_level: the blended score, in 1/100000
    pass_cut,  \* bucket_level: the pass threshold, in 1/100000
    bucket,    \* bucket_level: the label returned
    out,       \* the output table the batch send walks (its email column)
    send_i,    \* batch send: the index of the row the loop is at
    logs,      \* batch send: the log entries appended so far
    sent,      \* batch send: counter
    failed,    \* batch send: counter
    skipped,   \* batch send: counter
    attempts,  \* the addresses _send_email was called with, in order
    csv_columns,  \* screening: the columns of the uploaded CSV
    missing_cols, \* screening: `miss`, the required columns not in df
    df,        \* screening: the rows of the input table
    scr_i,     \* screening: the index of the row the loop is at
    rows,      \* screening: the output rows built so far
    skills_in, \* split_skills: the skills string argument
    toks       \* split_skills: the list returned

gkVars == <<blob, gcfg, gk>>
ruleVars == <<dept_cfg, rec, mcfg, res, prev, added>>
bucketVars == <<final_priority, pass_cut, bucket>>
sendVars == <<out, send_i, logs, sent, failed, skipped, attempts>>
screenVars == <<csv_columns, missing_cols, df, scr_i, rows>>
splitVars == <<skills_in, toks>>
vars == <<pc, gkVars, ruleVars, bucketVars, sendVars, screenVars, splitVars>>

(***************************************************************************)
(* Bounds of the model.                                                    *)
(***************************************************************************)
MaxBlobLen == 4
MaxYears == 2
MaxRows == 3
MaxSkillLen == 3

(***************************************************************************)
(* Generic helpers.                                                        *)
(***************************************************************************)
Min(a, b) == IF a <= b THEN a ELSE b
Max(a, b) == IF a >= b THEN a ELSE b
SetMin(S) == CHOOSE x \in S : \A y \in S : x <= y

\* dict.get(key, default)
Get(d, key, default) == IF key \in DOMAIN d THEN d[key] ELSE default

\* Concatenation of a sequence of sequences.
RECURSIVE Flatten(_)
Flatten(ss) == IF ss = <<>> THEN <<>> ELSE Head(ss) \o Flatten(Tail(ss))

\* All sequences over S of length 0..n.
SeqsUpTo(S, n) == UNION {[1..k -> S] : k \in 0..n}

(***************************************************************************)
(* Characters.  str.lower() maps the upper-case letters of the alphabet;   *)
(* \s of the re module matches blank, newline and tab.                     *)
(***************************************************************************)
Upper == {"A", "B", "C", "E", "G", "J", "P", "S", "T", "Y"}
LowerOf == [c \in Upper |->
              CASE c = "A" -> "a" [] c = "B" -> "b" [] c = "C" -> "c"
                [] c = "E" -> "e" [] c = "G" -> "g" [] c = "J" -> "j"
                [] c = "P" -> "p" [] c = "S" -> "s" [] c = "T" -> "t"
                [] c = "Y" -> "y"]
LowerChar(c) == IF c \in Upper THEN LowerOf[c] ELSE c
IsSpace(c) == c \in {" ", "\n", "\t"}

\* str.lower()
lower(s) == [i \in 1..Len(s) |-> LowerChar(s[i])]

\* str.strip(): leading and trailing whitespace removed
strip(s) ==
    LET idx == {i \in 1..Len(s) : ~IsSpace(s[i])}
    IN  IF idx = {} THEN <<>>
        ELSE SubSeq(s, SetMin(idx), CHOOSE i \in idx : \A j \in idx : j <= i)

\* re.sub(r"\s+", " ", text): every whitespace run becomes one blank
CollapseWS(s) ==
    LET F[i \in 0..Len(s)] ==
            IF i = 0 THEN <<>>
            ELSE IF IsSpace(s[i])
                 THEN IF i > 1 /\ IsSpace(s[i-1]) THEN F[i-1]
                      ELSE Append(F[i-1], " ")
                 ELSE Append(F[i-1], s[i])
    IN  F[Len(s)]

\* normalize_text for a str argument
normalize_text(text) == strip(CollapseWS(lower(text)))

\* str.find(p): the first 0-based index of p in s, or -1
Find(s, p) ==
    LET at == {i \in 0..(Len(s) - Len(p)) : SubSeq(s, i + 1, i + Len(p)) = p}
    IN  IF at = {} THEN -1 ELSE SetMin(at)

\* p in s
Contains(s, p) == Find(s, p) # -1

\* s[start:end] for 0 <= start <= end <= len(s)
Slice(s, start, end) == SubSeq(s, start + 1, end)

(***************************************************************************)
(* DEFAULT_RULES.  Legend of the tokens:                                   *)
(*   h  a hard global knockout phrase                                      *)
(*   s  a soft phrase ("mai la-iat"), sr the soft phrase that extends it   *)
(*      ("mai la-iat rop-khop"): the source lists both                     *)
(*   v  a review phrase                                                    *)
(*   esm a whitelist phrase: like the source's, it contains a soft phrase  *)
(*      and a mitigating term; em a whitelist phrase with no knockout in it*)
(*   m  a mitigating term                                                  *)
(*   t  a training indicator ("training"), c another ("course")            *)
(***************************************************************************)
DEFAULT_RULES ==
    [rule_weights |->
        [exp_under |-> -100, exp_meet |-> 20, edu_under |-> -100,
         must_missing |-> -150, must_all |-> 50, knockout |-> -200,
         nice_each |-> 30, training_ctx |-> -50, low_exp_skill |-> -30,
         age_out |-> -100, age_in |-> 20],
     training_indicators |-> << <<"t">>, <<"c">> >>,
     activity_weights |-> <<>>,
     max_activity_bonus |-> 0,
     default_age_range |-> <<18, 60>>,
     global_knockout |->
        [hard |-> << <<"h">> >>,
         soft |-> << <<"s">>, <<"s", "r">> >>,
         review |-> << <<"v">> >>],
     global_knockout_weights |-> [hard |-> -200, soft |-> -100, review |-> 0],
     global_knockout_cap |-> -250,
     global_mitigation |->
        [whitelist_phrases |-> << <<"e", "s", "m">>, <<"e", "m">> >>,
         mitigate_terms |-> << <<"m">> >>,
         mitigation_factor |-> 50,
         context_window |-> 50]]

(***************************************************************************)
(* DEPARTMENTS_CFG: three of the source's eight departments.  Legend:      *)
(*   Programmer        p php, y python; nice x/i "ux/ui", a aws;           *)
(*                     knockout s (the phrase that is also a global soft   *)
(*                     phrase) and k; activities g github, j project,      *)
(*                     o hackathon                                         *)
(*   Purchasing China  n, q must-have; nice l; knockout z; activities i    *)
(*                     and ui (one phrase inside another, as in the source)*)
(*   Delivery          d must-have; nice f; no knockout_phrases key;       *)
(*                     activity w                                          *)
(* min_education_level: "ba" stands for the bachelor label (ordinal 1),    *)
(* "hs" for the vocational label (ordinal 0).                              *)
(***************************************************************************)
DEPARTMENTS_CFG ==
    [Programmer |->
        [must_have_skills |-> << <<"p">>, <<"y">> >>,
         nice_to_have_skills |-> << <<"x", "/", "i">>, <<"a">> >>,
         min_years_experience |-> 0,
         min_education_level |-> <<"b", "a">>,
         knockout_phrases |-> << <<"s">>, <<"k">> >>,
         age_range |-> <<21, 35>>,
         activity_weights |->
            << [k |-> <<"j">>, wt |-> 60], [k |-> <<"o">>, wt |-> 60],
               [k |-> <<"g">>, wt |-> 50] >>,
         max_activity_bonus |-> 120],
     PurchasingChina |->
        [must_have_skills |-> << <<"n">>, <<"q">> >>,
         nice_to_have_skills |-> << <<"l">> >>,
         min_years_experience |-> 2,
         min_education_level |-> <<"b", "a">>,
         knockout_phrases |-> << <<"z">> >>,
         age_range |-> <<25, 38>>,
         activity_weights |->
            << [k |-> <<"i">>, wt |-> 50], [k |-> <<"u", "i">>, wt |-> 50] >>,
         max_activity_bonus |-> 100],
     Delivery |->
        [must_have_skills |-> << <<"d">> >>,
         nice_to_have_skills |-> << <<"f">> >>,
         min_years_experience |-> 1,
         min_education_level |-> <<"h", "s">>,
         activity_weights |-> << [k |-> <<"w">>, wt |-> 30] >>,
         age_range |-> <<22, 40>>,
         max_activity_bonus |-> 60]]

DEFAULT_BASE ==
    [text_fields |-> <<"resume_text", "cover_letter_text", "skills", "activities">>,
     id_field |-> "candidate_id",
     label_field |-> "label"]

\* {**a, **b}: the keys of both, b's value where both have the key
DictMergeLeftWins(a, b) ==
    [k \in DOMAIN a \cup DOMAIN b |-> IF k \in DOMAIN a THEN a[k] ELSE b[k]]
DictMerge(a, b) ==
    [k \in DOMAIN a \cup DOMAIN b |-> IF k \in DOMAIN b THEN b[k] ELSE a[k]]

\* merged_cfg = {**DEFAULT_RULES, **DEPARTMENTS_CFG[department], **DEFAULT_BASE}
merged_cfg(dc) == DictMerge(DictMerge(DEFAULT_RULES, dc), DEFAULT_BASE)

(***************************************************************************)
(* Cell values of the numeric columns and float arithmetic.  A cell is a   *)
(* number, NaN (an empty CSV cell) or text float() rejects.  A float is    *)
(* [nan, v]; comparisons with NaN are false.  Experience totals are in     *)
(* twelfths of a year.                                                     *)
(***************************************************************************)
Num(n) == [k |-> "num", v |-> n]
NaNCell == [k |-> "nan", v |-> 0]
TextCell == [k |-> "text", v |-> 0]

Float(n) == [nan |-> FALSE, v |-> n]
NaN == [nan |-> TRUE, v |-> 0]

\* _to_num: float(x), 0.0 when float raises
to_num(x) ==
    CASE x.k = "num" -> Float(x.v)
      [] x.k = "nan" -> NaN
      [] OTHER -> Float(0)

FLt(a, b) == ~a.nan /\ ~b.nan /\ a.v < b.v
FLe(a, b) == ~a.nan /\ ~b.nan /\ a.v <= b.v
FGe(a, b) == ~a.nan /\ ~b.nan /\ a.v >= b.v

\* total = y + m/12.0, in twelfths
TotalYears(y, m) == IF y.nan \/ m.nan THEN NaN ELSE Float(12 * y.v + m.v)

(***************************************************************************)
(* encode_education and split_skills                                       *)
(***************************************************************************)
IsLetter(c) == ~IsSpace(c) /\ c \notin {",", "/", ";", "|", "."}

UpperChar(c) == IF \E u \in Upper : LowerOf[u] = c
                THEN CHOOSE u \in Upper : LowerOf[u] = c ELSE c

\* str.title(): a letter that starts a word is upper-cased, the others lowered
title(s) == [i \in 1..Len(s) |->
               IF i = 1 \/ ~IsLetter(s[i-1]) THEN UpperChar(s[i]) ELSE LowerChar(s[i])]

\* the entries "hs", "ba", "mba", "phd" of the mapping
EducationMapping ==
    [x \in {<<"h", "s">>, <<"b", "a">>, <<"m", "b", "a">>, <<"p", "h", "d">>} |->
        CASE x = <<"h", "s">> -> 0 [] x = <<"b", "a">> -> 1
          [] x = <<"m", "b", "a">> -> 2 [] x = <<"p", "h", "d">> -> 3]

encode_education(level) ==
    LET s == normalize_text(level)
    IN  IF s \in DOMAIN EducationMapping THEN EducationMapping[s]
        ELSE IF title(s) \in DOMAIN EducationMapping THEN EducationMapping[title(s)]
        ELSE 0

SkillDelimiters == {",", "/", ";", "|", "\n"}

\* re.split(r"[,/;|\n]", skills)
SplitOnDelimiters(s) ==
    LET F[i \in 0..Len(s)] ==
            IF i = 0 THEN << <<>> >>
            ELSE IF s[i] \in SkillDelimiters THEN Append(F[i-1], <<>>)
                 ELSE [F[i-1] EXCEPT ![Len(F[i-1])] = Append(@, s[i])]
    IN  F[Len(s)]

\* [s.strip().lower() for s in re.split(...) if s.strip()]
split_skills(skills) ==
    LET parts == SplitOnDelimiters(skills)
        kept  == SelectSeq(parts, LAMBDA x : strip(x) # <<>>)
    IN  [i \in 1..Len(kept) |-> lower(strip(kept[i]))]

Range(f) == {f[i] : i \in DOMAIN f}

\* " ".join(parts)
JoinBlank(parts) ==
    LET F[i \in 0..Len(parts)] ==
            IF i = 0 THEN <<>>
            ELSE IF i = 1 THEN parts[1]
            ELSE F[i-1] \o <<" ">> \o parts[i]
    IN  F[Len(parts)]

(***************************************************************************)
(* _apply_global_knockout(blob, cfg)                                       *)
(***************************************************************************)
GKLevels == <<"hard", "soft", "review">>

\* weight *= factor, the factor in hundredths
Scale(weight, factor) == (weight * factor) \div 100

\* `any(normalize_text(w) in blob for w in wlist)`
AllWhitelisted(b, wlist) ==
    \A i \in 1..Len(wlist) : Contains(b, normalize_text(wlist[i]))
Whitelisted(b, wlist) ==
    \E i \in 1..Len(wlist) : Contains(b, normalize_text(wlist[i]))

\* One pass of the inner loop body for phrase `phrase` of tier `level`;
\* acc = [penalty, hits, added].  `added` records every `penalty += weight`.
GKVisit(acc, level, phrase, b, weights, wlist, mterms, factor, ctx) ==
    LET p   == normalize_text(phrase)
        pos == Find(b, p)
    IN  IF p = <<>> THEN acc
        ELSE IF pos = -1 THEN acc
        ELSE IF Whitelisted(b, wlist)
             THEN [acc EXCEPT !.hits =
                       Append(@, [p |-> p, level |-> level, tag |-> "whitelist"])]
        ELSE
            LET start  == Max(0, pos - ctx)
                end    == Min(Len(b), pos + Len(p) + ctx)
                window == Slice(b, start, end)
                weight == Get(weights, level, 0)
                mitig  == (\E i \in 1..Len(mterms) : Contains(window, mterms[i]))
                          /\ weight < 0
                w2     == IF mitig THEN Scale(weight, factor) ELSE weight
            IN  [penalty |-> acc.penalty + w2,
                 hits    |-> Append(acc.hits,
                               [p |-> p, level |-> level,
                                tag |-> IF mitig THEN "mitigated" ELSE "full"]),
                 added   |-> Append(acc.added,
                               [p |-> p, level |-> level, weight |-> w2,
                                full |-> weight, mitigated |-> mitig])]

\* `if penalty < cap: penalty = cap`
GKClampEachHit(penalty, cap) == penalty
GKClamp(penalty, cap) == IF penalty < cap THEN cap ELSE penalty

apply_global_knockout(b, cfg) ==
    LET gkl     == Get(cfg, "global_knockout", DEFAULT_RULES.global_knockout)
        weights == Get(cfg, "global_knockout_weights",
                       DEFAULT_RULES.global_knockout_weights)
        cap     == Get(cfg, "global_knockout_cap", DEFAULT_RULES.global_knockout_cap)
        mitig   == Get(cfg, "global_mitigation", DEFAULT_RULES.global_mitigation)
        wl0     == Get(mitig, "whitelist_phrases", <<>>)
        mt0     == Get(mitig, "mitigate_terms", <<>>)
        wlist   == [i \in 1..Len(wl0) |-> normalize_text(wl0[i])]
        mterms  == [i \in 1..Len(mt0) |-> normalize_text(mt0[i])]
        factor  == Get(mitig, "mitigation_factor", 50)
        ctx     == Get(mitig, "context_window", 50)
        todo    == Flatten([l \in 1..Len(GKLevels) |->
                      LET ps == Get(gkl, GKLevels[l], <<>>)
                      IN  [j \in 1..Len(ps) |->
                              [level |-> GKLevels[l], phrase |-> ps[j]]]])
        F[i \in 0..Len(todo)] ==
            IF i = 0 THEN [penalty |-> 0, hits |-> <<>>, added |-> <<>>]
            ELSE GKVisit(F[i-1], todo[i].level, todo[i].phrase, b,
                         weights, wlist, mterms, factor, ctx)
        r       == F[Len(todo)]
    IN  [penalty |-> GKClamp(r.penalty, cap), hits |-> r.hits,
         added |-> r.added, raw |-> r.penalty]

(***************************************************************************)
(* rule_score(row, cfg).  The accumulator is [score, reasons, deltas]:     *)
(* `reasons` is the list the code appends to, one record [g, d] per        *)
(* formatted string (g names the format, d the phrases it lists);          *)
(* `deltas` records every `score += ...` with the rule that made it.       *)
(***************************************************************************)
TrainingCtxSpan == 40

Add(acc, g, d, delta) ==
    [score   |-> acc.score + delta,
     reasons |-> Append(acc.reasons, [g |-> g, d |-> d]),
     deltas  |-> Append(acc.deltas, [rule |-> g, d |-> delta])]

AddReason(acc, g, d) == [acc EXCEPT !.reasons = Append(@, [g |-> g, d |-> d])]

AddScore(acc, g, delta) ==
    [acc EXCEPT !.score = @ + delta,
                !.deltas = Append(@, [rule |-> g, d |-> delta])]

RuleWeights(cfg) == Get(cfg, "rule_weights", DEFAULT_RULES.rule_weights)

RowTotal(row) ==
    TotalYears(to_num(row.years_experience), to_num(row.months_experience))

RowSkills(row) == Range(split_skills(row.skills))

\* blob = " ".join([normalize_text(str(row.get(f, ""))) for f in cfg["text_fields"]])
RowBlob(row, cfg) ==
    JoinBlank([i \in 1..Len(cfg.text_fields) |-> normalize_text(row[cfg.text_fields[i]])])

\* lines 387-393
RuleExperience(acc, row, cfg) ==
    IF FLt(RowTotal(row), Float(12 * cfg.min_years_experience))
    THEN Add(acc, "exp_under", <<>>, Get(RuleWeights(cfg), "exp_under", -100))
    ELSE Add(acc, "exp_meet", <<>>, Get(RuleWeights(cfg), "exp_meet", 20))

\* lines 395-396
RuleEducation(acc, row, cfg) ==
    IF encode_education(row.education_level) < encode_education(cfg.min_education_level)
    THEN Add(acc, "edu_under", <<>>, Get(RuleWeights(cfg), "edu_under", -100))
    ELSE acc

\* lines 398-403
RuleMustHaveInverted(acc, row, cfg) ==
    LET miss == SelectSeq(cfg.must_have_skills, LAMBDA x : x \notin RowSkills(row))
    IN  IF miss = <<>>
        THEN Add(acc, "must_missing", miss, Get(RuleWeights(cfg), "must_missing", -150))
        ELSE Add(acc, "must_all", <<>>, Get(RuleWeights(cfg), "must_all", 50))
RuleMustHave(acc, row, cfg) ==
    LET miss == SelectSeq(cfg.must_have_skills, LAMBDA x : x \notin RowSkills(row))
    IN  IF miss # <<>>
        THEN Add(acc, "must_missing", miss, Get(RuleWeights(cfg), "must_missing", -150))
        ELSE Add(acc, "must_all", <<>>, Get(RuleWeights(cfg), "must_all", 50))

\* lines 407-409
RuleGlobalKnockout(acc, row, cfg) ==
    LET g  == apply_global_knockout(RowBlob(row, cfg), cfg)
        a1 == IF g.hits # <<>>
              THEN AddReason(acc, "global_knockout",
                             [i \in 1..Len(g.hits) |-> g.hits[i].p])
              ELSE acc
    IN  AddScore(a1, "global_knockout", g.penalty)

\* lines 411-413
RuleDeptKnockoutUnlessWhitelisted(acc, row, cfg) ==
    LET ps == Get(cfg, "knockout_phrases", <<>>)
        b  == RowBlob(row, cfg)
        wl == Get(Get(cfg, "global_mitigation", DEFAULT_RULES.global_mitigation),
                  "whitelist_phrases", <<>>)
        F[i \in 0..Len(ps)] ==
            IF i = 0 THEN acc
            ELSE IF Contains(b, normalize_text(ps[i]))
                    /\ ~\E j \in 1..Len(wl) : Contains(b, normalize_text(wl[j]))
                 THEN Add(F[i-1], "dept_knockout", <<ps[i]>>,
                          Get(RuleWeights(cfg), "knockout", -200))
                 ELSE F[i-1]
    IN  F[Len(ps)]
RuleDeptKnockout(acc, row, cfg) ==
    LET ps == Get(cfg, "knockout_phrases", <<>>)
        b  == RowBlob(row, cfg)
        F[i \in 0..Len(ps)] ==
            IF i = 0 THEN acc
            ELSE IF Contains(b, normalize_text(ps[i]))
                 THEN Add(F[i-1], "dept_knockout", <<ps[i]>>,
                          Get(RuleWeights(cfg), "knockout", -200))
                 ELSE F[i-1]
    IN  F[Len(ps)]

\* \w of the re module, and \b at 0-based offset q of b
IsWordChar(c) == IsLetter(c)
WordBoundary(b, q) ==
    ((q >= 1 /\ q <= Len(b)) /\ IsWordChar(b[q]))
        # ((q < Len(b) /\ q >= 0) /\ IsWordChar(b[q + 1]))
MatchAt(b, q, tok) ==
    q >= 0 /\ q + Len(tok) <= Len(b) /\ SubSeq(b, q + 1, q + Len(tok)) = tok
\* .{g} between 0-based offsets from and from+g: no newline
Dots(b, from, g) == from + g <= Len(b) /\ \A j \in (from + 1)..(from + g) : b[j] # "\n"
\* the lengths .{0,40} can take from 0-based offset `from`
Gaps(b, from) == 0..Min(TrainingCtxSpan, Len(b) - from)

\* ps1 = ind_alt + r".{0,40}\b" + s_esc + r"\b"; ps1.search(blob)
SearchIndicatorThenSkill(b, inds, sk) ==
    \E i \in 0..Len(b), k \in 1..Len(inds) :
        /\ MatchAt(b, i, inds[k])
        /\ \E g \in Gaps(b, i + Len(inds[k])) :
              LET q == i + Len(inds[k]) + g
              IN  /\ MatchAt(b, q, sk)
                  /\ Dots(b, i + Len(inds[k]), g)
                  /\ WordBoundary(b, q)
                  /\ WordBoundary(b, q + Len(sk))

\* ps2 = r"\b" + s_esc + r"\b.{0,40}" + ind_alt; ps2.search(blob)
SearchSkillThenIndicator(b, inds, sk) ==
    \E q \in 0..Len(b) :
        /\ MatchAt(b, q, sk)
        /\ WordBoundary(b, q)
        /\ WordBoundary(b, q + Len(sk))
        /\ \E g \in Gaps(b, q + Len(sk)), k \in 1..Len(inds) :
              /\ MatchAt(b, q + Len(sk) + g, inds[k])
              /\ Dots(b, q + Len(sk), g)

TrainingIndicators(cfg) ==
    Get(cfg, "training_indicators", DEFAULT_RULES.training_indicators)

\* lines 415-422
RuleTrainingCtx(acc, row, cfg) ==
    LET ms == Get(cfg, "must_have_skills", <<>>)
        b  == RowBlob(row, cfg)
        ti == TrainingIndicators(cfg)
        F[i \in 0..Len(ms)] ==
            IF i = 0 THEN acc
            ELSE IF SearchIndicatorThenSkill(b, ti, ms[i])
                    \/ SearchSkillThenIndicator(b, ti, ms[i])
                 THEN Add(F[i-1], "training_ctx", <<ms[i]>>,
                          Get(RuleWeights(cfg), "training_ctx", -50))
                 ELSE F[i-1]
    IN  F[Len(ms)]

\* lines 424-426
RuleNiceToHave(acc, row, cfg) ==
    LET nice == SelectSeq(Get(cfg, "nice_to_have_skills", <<>>),
                          LAMBDA x : x \in RowSkills(row))
    IN  IF nice # <<>>
        THEN Add(acc, "nice", nice, Get(RuleWeights(cfg), "nice_each", 30) * Len(nice))
        ELSE acc

\* low_exp = max(0.5, cfg.get("min_years_experience", 0) / 2), in twelfths
LowExp(cfg) == Max(6, 6 * Get(cfg, "min_years_experience", 0))

\* lines 428-431
RuleLowExpSkill(acc, row, cfg) ==
    LET ms == Get(cfg, "must_have_skills", <<>>)
        F[i \in 0..Len(ms)] ==
            IF i = 0 THEN acc
            ELSE IF ms[i] \in RowSkills(row) /\ FLt(RowTotal(row), Float(LowExp(cfg)))
                 THEN Add(F[i-1], "low_exp_skill", <<ms[i]>>,
                          Get(RuleWeights(cfg), "low_exp_skill", -30))
                 ELSE F[i-1]
    IN  F[Len(ms)]

\* lines 433-441
RuleAge(acc, row, cfg) ==
    LET age_val   == to_num(row.age)
        age_range == Get(cfg, "age_range", DEFAULT_RULES.default_age_range)
    IN  IF FGe(age_val, Float(0))
        THEN IF ~(FLe(Float(age_range[1]), age_val) /\ FLe(age_val, Float(age_range[2])))
             THEN Add(acc, "age_out", <<>>, Get(RuleWeights(cfg), "age_out", -100))
             ELSE Add(acc, "age_in", <<>>, Get(RuleWeights(cfg), "age_in", 20))
        ELSE AddReason(acc, "age_unspecified", <<>>)

\* bonus = min(bonus, max_bonus)
CapBonusUncapped(bonus, max_bonus) == bonus
CapBonus(bonus, max_bonus) == Min(bonus, max_bonus)

\* is_training_like_activity
TrainingLike(acts, inds) ==
    \E i \in 1..Len(inds) : Contains(acts, normalize_text(inds[i]))

\* lines 443-456
RuleActivity(acc, row, cfg) ==
    LET acts      == normalize_text(row.activities)
        aw        == Get(cfg, "activity_weights", DEFAULT_RULES.activity_weights)
        max_bonus == Get(cfg, "max_activity_bonus", DEFAULT_RULES.max_activity_bonus)
        hit(i)    == Contains(acts, normalize_text(aw[i].k))
        B[i \in 0..Len(aw)] ==
            IF i = 0 THEN 0 ELSE IF hit(i) THEN B[i-1] + aw[i].wt ELSE B[i-1]
        H[i \in 0..Len(aw)] ==
            IF i = 0 THEN <<>> ELSE IF hit(i) THEN Append(H[i-1], aw[i].k) ELSE H[i-1]
        bonus     == B[Len(aw)]
    IN  IF bonus > 0
        THEN IF TrainingLike(acts, TrainingIndicators(cfg))
             THEN AddReason(acc, "activity_training", <<>>)
             ELSE Add(acc, "activity", H[Len(aw)], CapBonus(bonus, max_bonus))
        ELSE acc

NoRes == [score |-> 0, reasons |-> <<>>, deltas |-> <<>>]

rule_score_nice_first(row, cfg) ==
    RuleActivity(RuleAge(RuleLowExpSkill(RuleTrainingCtx(RuleDeptKnockout(
      RuleGlobalKnockout(RuleNiceToHave(RuleMustHave(RuleEducation(RuleExperience(
        NoRes, row, cfg), row, cfg), row, cfg), row, cfg), row, cfg), row, cfg),
          row, cfg), row, cfg), row, cfg), row, cfg)
rule_score(row, cfg) ==
    RuleActivity(RuleAge(RuleLowExpSkill(RuleNiceToHave(RuleTrainingCtx(
      RuleDeptKnockout(RuleGlobalKnockout(RuleMustHave(RuleEducation(RuleExperience(
        NoRes, row, cfg), row, cfg), row, cfg), row, cfg), row, cfg), row, cfg),
          row, cfg), row, cfg), row, cfg), row, cfg)

(***************************************************************************)
(* Specification SpecGK: _apply_global_knockout on any blob over the       *)
(* knockout alphabet, under configurations that vary the tier weights,     *)
(* the cap, the mitigation factor and the context window.                  *)
(***************************************************************************)
GKAlphabet == {"h", "s", "v", "e", "m"}

GKWeightTables ==
    {[hard |-> -200, soft |-> -100, review |-> 0],
     [hard |-> -300, soft |-> 50]}

GKCaps == {-250, -100, 100}

\* 0.5 is the source's; the others are what a configuration may hold
GKFactors == {50, 0, 100, 200, -100}

GKWindows == {1, 50}

GKConfigs ==
    {[global_knockout_weights |-> w, global_knockout_cap |-> c,
      global_mitigation |->
          [DEFAULT_RULES.global_mitigation EXCEPT
              !.mitigation_factor = f, !.context_window = x]] :
       w \in GKWeightTables, c \in GKCaps, f \in GKFactors, x \in GKWindows}

NoGK == [penalty |-> 0, hits |-> <<>>, added |-> <<>>, raw |-> 0]

NoRow == [candidate_id |-> 0]
RuleIdle ==
    /\ dept_cfg = DEFAULT_BASE
    /\ rec = NoRow
    /\ mcfg = DEFAULT_BASE
    /\ res = NoRes
    /\ prev = NoRes
    /\ added = <<>>

BucketIdle ==
    /\ final_priority = 0
    /\ pass_cut = 0
    /\ bucket = "none"

SendIdle ==
    /\ out = <<>>
    /\ send_i = 0
    /\ logs = <<>>
    /\ sent = 0
    /\ failed = 0
    /\ skipped = 0
    /\ attempts = <<>>

ScreenIdle ==
    /\ csv_columns = {}
    /\ missing_cols = <<>>
    /\ df = <<>>
    /\ scr_i = 0
    /\ rows = <<>>

SplitIdle ==
    /\ skills_in = <<>>
    /\ toks = <<>>

InitGK ==
    /\ pc = "gk_call"
    /\ blob \in SeqsUpTo(GKAlphabet, MaxBlobLen)
    /\ gcfg \in GKConfigs
    /\ gk = NoGK
    /\ RuleIdle
    /\ BucketIdle
    /\ SendIdle
    /\ ScreenIdle
    /\ SplitIdle

GKCall ==
    /\ pc = "gk_call"
    /\ gk' = apply_global_knockout(blob, gcfg)
    /\ pc' = "gk_done"
    /\ UNCHANGED <<blob, gcfg, ruleVars, bucketVars, sendVars, screenVars, splitVars>>

NextGK == GKCall

SpecGK == InitGK /\ [][NextGK]_vars

(***************************************************************************)
(* Specification SpecRule: the body of the per-row loop (lines 546-549)    *)
(* for one row of the table, for each department, followed by a second     *)
(* evaluation of the same record with one missing must-have skill appended *)
(* to its skills cell.                                                     *)
(***************************************************************************)
Departments == {"Programmer", "PurchasingChina", "Delivery"}

YearsCells == {Num(n) : n \in 0..MaxYears}
MonthsCells == {Num(0), Num(6)}
AgeCells == {Num(-1), Num(24), Num(50)}
EducationCells == {<<"h", "s">>, <<"B", "a">>}

SkillsCells ==
    {<<>>,
     <<"P", ",", " ", "y">>,
     <<"p", ",", "a">>,
     <<"y", "\n", "x", "/", "i">>,
     <<"n", ";", "q", "|", "l">>,
     <<"d">>}

ResumeCells ==
    {<<>>,
     <<"T", " ", "p", " ", "k", " ", "h">>,
     <<"n", " ", " ", "c", " ", "z", " ", "s", " ", "m">>,
     <<"e", "s", "m", " ", "h">>}

ActivityCells ==
    {<<>>,
     <<"g", " ", "j", " ", "o">>,
     <<"G", " ", "t">>,
     <<"u", "i", " ", "w">>}

Rows(years, months, edus, skills, resumes, acts, ages) ==
    {[candidate_id |-> 1, resume_text |-> r, cover_letter_text |-> <<>>,
      skills |-> sk, activities |-> a, years_experience |-> y,
      months_experience |-> m, education_level |-> e, age |-> g] :
        y \in years, m \in months, e \in edus, sk \in skills, r \in resumes,
        a \in acts, g \in ages}

GKIdle ==
    /\ blob = <<>>
    /\ gcfg = DEFAULT_BASE
    /\ gk = NoGK

InitRule ==
    /\ pc = "row"
    /\ dept_cfg \in {DEPARTMENTS_CFG[d] : d \in Departments}
    /\ rec \in Rows(YearsCells, MonthsCells, EducationCells, SkillsCells,
                    ResumeCells, ActivityCells, AgeCells)
    /\ mcfg = DEFAULT_BASE
    /\ res = NoRes
    /\ prev = NoRes
    /\ added = <<>>
    /\ GKIdle
    /\ BucketIdle
    /\ SendIdle
    /\ ScreenIdle
    /\ SplitIdle

\* lines 548-549: merged_cfg is built and rule_score is called for the row
ScoreRow ==
    /\ pc = "row"
    /\ mcfg' = merged_cfg(dept_cfg)
    /\ res' = rule_score(rec, merged_cfg(dept_cfg))
    /\ pc' = "scored"
    /\ UNCHANGED <<dept_cfg, rec, prev, added, gkVars, bucketVars, sendVars, screenVars, splitVars>>

MissingSkills(row, cfg) ==
    {cfg.must_have_skills[i] : i \in 1..Len(cfg.must_have_skills)} \ RowSkills(row)

\* The same record with the must-have skill sk appended to its skills cell.
WithSkill(row, sk) ==
    [row EXCEPT !.skills = IF @ = <<>> THEN sk ELSE @ \o <<",">> \o sk]

\* rule_score is called again for the record with one more must-have skill.
AddSkill ==
    /\ pc = "scored"
    /\ \E sk \in MissingSkills(rec, mcfg) :
          /\ rec' = WithSkill(rec, sk)
          /\ added' = sk
          /\ res' = rule_score(WithSkill(rec, sk), mcfg)
    /\ prev' = res
    /\ pc' = "added"
    /\ UNCHANGED <<dept_cfg, mcfg, gkVars, bucketVars, sendVars, screenVars, splitVars>>

NextRule == ScoreRow \/ AddSkill

SpecRule == InitRule /\ [][NextRule]_vars

(***************************************************************************)
(* Specification SpecCells: the same loop body for rows whose numeric      *)
(* cells hold a number, NaN (an empty CSV cell) or text.                   *)
(***************************************************************************)
AnyCells(nums) == {Num(n) : n \in nums} \cup {NaNCell, TextCell}

InitCells ==
    /\ pc = "row"
    /\ dept_cfg \in {DEPARTMENTS_CFG[d] : d \in Departments}
    /\ rec \in Rows(AnyCells({0, 1}), AnyCells({0, 6}), {<<"b", "a">>},
                    {<<>>, <<"d">>}, {<<>>}, {<<>>}, AnyCells({-1, 24}))
    /\ mcfg = DEFAULT_BASE
    /\ res = NoRes
    /\ prev = NoRes
    /\ added = <<>>
    /\ GKIdle
    /\ BucketIdle
    /\ SendIdle
    /\ ScreenIdle
    /\ SplitIdle

SpecCells == InitCells /\ [][NextRule]_vars

(***************************************************************************)
(* Specification SpecAct: rule_score for the Programmer department with    *)
(* the activity weight table, the bonus cap and the activities text        *)
(* varied.                                                                 *)
(***************************************************************************)
MaxActLen == 3

ActAlphabet == {"g", "J", "t", " "}

ActivityTables ==
    {<<>>,
     << [k |-> <<"g">>, wt |-> 50] >>,
     << [k |-> <<"j">>, wt |-> 60], [k |-> <<"G">>, wt |-> 50],
        [k |-> <<"g", "j">>, wt |-> 60] >>,
     << [k |-> <<"g">>, wt |-> -50], [k |-> <<"j">>, wt |-> 60] >>,
     << [k |-> <<"t">>, wt |-> 40], [k |-> <<"j">>, wt |-> 60] >>}

BonusCaps == {-50, 0, 50, 120}

InitAct ==
    /\ pc = "row"
    /\ dept_cfg \in {[DEPARTMENTS_CFG.Programmer EXCEPT
                         !.activity_weights = t, !.max_activity_bonus = c] :
                      t \in ActivityTables, c \in BonusCaps}
    /\ rec \in Rows({Num(1)}, {Num(0)}, {<<"b", "a">>}, {<<"p">>}, {<<>>},
                    SeqsUpTo(ActAlphabet, MaxActLen), {Num(24)})
    /\ mcfg = DEFAULT_BASE
    /\ res = NoRes
    /\ prev = NoRes
    /\ added = <<>>
    /\ GKIdle
    /\ BucketIdle
    /\ SendIdle
    /\ ScreenIdle
    /\ SplitIdle

SpecAct == InitAct /\ [][NextRule]_vars

(***************************************************************************)
(* bucket_level and specification SpecBucket.  The labels are the two      *)
(* Thai strings of line 461, written "pass" and "fail" here.  Scores are   *)
(* in 1/100000; pass_cut is a value of the slider of line 262 (0.10 to     *)
(* 0.90 in steps of 0.01).                                                 *)
(***************************************************************************)
bucket_level_strict(final, cut) == IF final > cut THEN "pass" ELSE "fail"
bucket_level(final, cut) == IF final >= cut THEN "pass" ELSE "fail"

PassCuts == {1000 * k : k \in 10..90}

InitBucket ==
    /\ pc = "bucket_call"
    /\ pass_cut \in PassCuts
    /\ final_priority \in {1, pass_cut - 1000, pass_cut - 1, pass_cut,
                           pass_cut + 1, pass_cut + 1000, 99999}
    /\ bucket = "none"
    /\ GKIdle
    /\ RuleIdle
    /\ SendIdle
    /\ ScreenIdle
    /\ SplitIdle

\* line 556
BucketCall ==
    /\ pc = "bucket_call"
    /\ bucket' = bucket_level(final_priority, pass_cut)
    /\ pc' = "bucketed"
    /\ UNCHANGED <<final_priority, pass_cut, gkVars, ruleVars, sendVars, screenVars, splitVars>>

NextBucket == BucketCall

SpecBucket == InitBucket /\ [][NextBucket]_vars

(***************************************************************************)
(* clean_email and is_valid_email.  The code points of INVISIBLE and       *)
(* WIDE_SPACES are written as one-character tokens "U200B", "U00A0", ...   *)
(***************************************************************************)
INVISIBLE == {"U200B", "UFEFF"}
WIDE_SPACES == {"U00A0", "U202F", "U2007", "U2009", "U200A", "U205F", "U3000"}

LowerLetters ==
    {"a", "b", "c", "d", "e", "f", "g", "h", "i", "j", "k", "l", "m", "n", "o",
     "p", "q", "r", "s", "t", "u", "v", "w", "x", "y", "z"}
AsciiLetters == LowerLetters \cup Upper
Digits == {"0", "1", "2", "3", "4", "5", "6", "7", "8", "9"}

\* clean_email for a str argument
clean_email(e) ==
    LET visible == SelectSeq(e, LAMBDA c : c \notin INVISIBLE)
        spaced  == [i \in 1..Len(visible) |->
                       IF visible[i] \in WIDE_SPACES THEN " " ELSE visible[i]]
    IN  strip(spaced)

\* EMAIL_RE.match(e): ^[A-Za-z0-9._%+\-]+@[A-Za-z0-9.\-]+\.[A-Za-z]{2,}$
EmailLocalChars == AsciiLetters \cup Digits \cup {".", "_", "%", "+", "-"}
EmailDomainChars == AsciiLetters \cup Digits \cup {".", "-"}
EMAIL_RE_match(e) ==
    \E a \in 2..Len(e), d \in 1..Len(e) :
        /\ e[a] = "@"
        /\ \A i \in 1..(a - 1) : e[i] \in EmailLocalChars
        /\ d > a + 1
        /\ e[d] = "."
        /\ \A i \in (a + 1)..(d - 1) : e[i] \in EmailDomainChars
        /\ Len(e) - d >= 2
        /\ \A i \in (d + 1)..Len(e) : e[i] \in AsciiLetters

BLOCKED_DEMO_DOMAINS ==
    {<<"e", "x", "a", "m", "p", "l", "e", ".", "c", "o", "m">>,
     <<"t", "e", "s", "t", ".", "c", "o", "m">>,
     <<"i", "n", "v", "a", "l", "i", "d">>,
     <<"e", "x", "a", "m", "p", "l", "e", ".", "o", "r", "g">>,
     <<"e", "x", "a", "m", "p", "l", "e", ".", "n", "e", "t">>}

\* s.split("@")[-1]
AfterLastAt(e) ==
    LET ats == {i \in 1..Len(e) : e[i] = "@"}
    IN  IF ats = {} THEN e
        ELSE SubSeq(e, (CHOOSE i \in ats : \A j \in ats : j <= i) + 1, Len(e))

is_valid_email(e) ==
    LET c == clean_email(e)
    IN  IF c = <<>> \/ ~EMAIL_RE_match(c) THEN FALSE
        ELSE lower(AfterLastAt(c)) \notin BLOCKED_DEMO_DOMAINS

(***************************************************************************)
(* The batch send (lines 635-656) and specification SpecSend.  One call of *)
(* _send_email (lines 301-321) returns (True, ""), returns (False, the     *)
(* refused recipients), or raises: the connection (309, 311), login (315)  *)
(* and sendmail (316) are guarded by try/finally only.                     *)
(***************************************************************************)
SendOutcomes == {"accepted", "refused", "raised"}

EmailCells ==
    {<<"a", "@", "b", ".", "c", "o">>,
     <<"a", "@", "T", "e", "s", "t", ".", "c", "o", "m">>,
     <<"a", "b">>,
     <<>>}

InitSend ==
    /\ pc = "send_loop"
    /\ out \in UNION {[1..n -> {[candidate_id |-> 1, email |-> clean_email(e)] :
                                  e \in EmailCells}] : n \in 1..MaxRows}
    /\ send_i = 1
    /\ logs = <<>>
    /\ sent = 0
    /\ failed = 0
    /\ skipped = 0
    /\ attempts = <<>>
    /\ GKIdle
    /\ RuleIdle
    /\ BucketIdle
    /\ ScreenIdle
    /\ SplitIdle

LogEntry(r, to, status) == [candidate_id |-> r.candidate_id, to |-> to, status |-> status]

\* one iteration of `for _, r in out.iterrows()` (lines 639-654)
SendRow ==
    /\ pc = "send_loop"
    /\ send_i <= Len(out)
    /\ LET r        == out[send_i]
           to_email == clean_email(r.email)
       IN  IF ~is_valid_email(to_email)
           THEN /\ skipped' = skipped + 1
                /\ logs' = Append(logs, LogEntry(r, to_email, "SKIPPED"))
                /\ send_i' = send_i + 1
                /\ UNCHANGED <<pc, sent, failed, attempts>>
           ELSE /\ attempts' = Append(attempts, to_email)
                /\ \E o \in SendOutcomes :
                  CASE o = "accepted" ->
                         /\ sent' = sent + 1
                         /\ logs' = Append(logs, LogEntry(r, to_email, "SENT"))
                         /\ send_i' = send_i + 1
                         /\ UNCHANGED <<pc, failed, skipped>>
                    [] o = "refused" ->
                         /\ failed' = failed + 1
                         /\ logs' = Append(logs, LogEntry(r, to_email, "FAILED"))
                         /\ send_i' = send_i + 1
                         /\ UNCHANGED <<pc, sent, skipped>>
                    [] o = "raised" ->
                         /\ pc' = "send_aborted"
                         /\ UNCHANGED <<send_i, logs, sent, failed, skipped>>
    /\ UNCHANGED <<out, gkVars, ruleVars, bucketVars, screenVars, splitVars>>

\* the loop is exhausted: lines 655-656 report the counters and the log
SendReport ==
    /\ pc = "send_loop"
    /\ send_i > Len(out)
    /\ pc' = "send_done"
    /\ UNCHANGED <<sendVars, gkVars, ruleVars, bucketVars, screenVars, splitVars>>

NextSend == SendRow \/ SendReport

SpecSend == InitSend /\ [][NextSend]_vars

(***************************************************************************)
(* Specification SpecNotify: one run of the notification section over an   *)
(* output table: the single-row test send (lines 623-633) or the batch     *)
(* send (lines 635-656).  Each button press is one run of the script, so   *)
(* a run takes one of the two.                                             *)
(***************************************************************************)
InitNotify ==
    /\ pc = "notify"
    /\ out \in UNION {[1..n -> {[candidate_id |-> 1, email |-> clean_email(e)] :
                                  e \in EmailCells}] : n \in 1..MaxRows}
    /\ send_i = 0
    /\ logs = <<>>
    /\ sent = 0
    /\ failed = 0
    /\ skipped = 0
    /\ attempts = <<>>
    /\ GKIdle
    /\ RuleIdle
    /\ BucketIdle
    /\ ScreenIdle
    /\ SplitIdle

\* lines 623-633: r = out.iloc[int(test_idx)]; _send_email(..., to_email, ...)
TestSend ==
    /\ pc = "notify"
    /\ \E test_idx \in 1..Len(out), o \in SendOutcomes :
          LET to_email == clean_email(out[test_idx].email)
          IN  /\ attempts' = Append(attempts, to_email)
              /\ pc' = IF o = "raised" THEN "send_aborted" ELSE "test_done"
    /\ UNCHANGED <<out, send_i, logs, sent, failed, skipped>>
    /\ UNCHANGED <<gkVars, ruleVars, bucketVars, screenVars, splitVars>>

\* lines 635-638: do_send pressed; the counters and the log start empty
DoSend ==
    /\ pc = "notify"
    /\ pc' = "send_loop"
    /\ send_i' = 1
    /\ logs' = <<>>
    /\ sent' = 0
    /\ failed' = 0
    /\ skipped' = 0
    /\ UNCHANGED <<out, attempts>>
    /\ UNCHANGED <<gkVars, ruleVars, bucketVars, screenVars, splitVars>>

NextNotify == TestSend \/ DoSend \/ SendRow \/ SendReport

SpecNotify == InitNotify /\ [][NextNotify]_vars

(***************************************************************************)
(* The screening run (lines 532-573): ingestion of the uploaded CSV, the   *)
(* per-row loop and the final sort.  A row of df carries its experience    *)
(* and age cells and `final`, the blend of line 550 in 1/100000: the       *)
(* classifier probability is an input of the run, so `final` is one too.   *)
(***************************************************************************)
\* `need`, line 539
RequiredColumns ==
    <<"candidate_id", "resume_text", "cover_letter_text", "skills", "activities",
      "years_experience", "education_level">>

\* the columns lines 533-537 add when the CSV lacks them
DefaultedColumnsSansActivities == {"months_experience", "age", "email", "name"}
DefaultedColumns == {"months_experience", "age", "activities", "email", "name"}

AllColumns == Range(RequiredColumns) \cup DefaultedColumns

\* round(x, 4) of a value in 1/100000: to the nearest multiple of 10, a tie
\* to the even one
Round4(x) ==
    LET q == x \div 10
        r == x % 10
    IN  IF r < 5 THEN 10 * q
        ELSE IF r > 5 THEN 10 * (q + 1)
        ELSE IF q % 2 = 0 THEN 10 * q ELSE 10 * (q + 1)

\* int(round(y_exp * 12 + m_exp)) raises ValueError for NaN (line 558)
TotalMonthsRaises(row) ==
    TotalYears(to_num(row.years_experience), to_num(row.months_experience)).nan

\* int(row.get("age", -1)) if pd.notna(...) else -1 (line 565): int() of a
\* non-numeric string raises ValueError
AgeShownRaises(row) == row.age.k = "text"
AgeShown(row) == IF row.age.k = "nan" THEN -1 ELSE row.age.v

\* the dict appended at lines 560-571
OutputRowLabelFromShown(row, cut) ==
    [candidate_id    |-> row.candidate_id,
     email           |-> clean_email(row.email),
     age             |-> AgeShown(row),
     final_priority  |-> Round4(row.final),
     predicted_level |-> bucket_level(Round4(row.final), cut)]
OutputRow(row, cut) ==
    [candidate_id    |-> row.candidate_id,
     email           |-> clean_email(row.email),
     age             |-> AgeShown(row),
     final_priority  |-> Round4(row.final),
     predicted_level |-> bucket_level(row.final, cut)]

Perms(n) == {f \in [1..n -> 1..n] : \A i, j \in 1..n : f[i] = f[j] => i = j}

\* sort_values("final_priority", ascending=False) with the default
\* kind="quicksort": the result is in descending order; the order of rows
\* with equal keys is whatever the sort of the build leaves.
SortValuesDescending(rs) ==
    {o \in {[i \in 1..Len(rs) |-> rs[f[i]]] : f \in Perms(Len(rs))} :
        \A i \in 1..(Len(o) - 1) : o[i].final_priority >= o[i + 1].final_priority}

\* lines 532-543
Ingest ==
    /\ pc = "ingest"
    /\ LET cols == csv_columns \cup DefaultedColumns
           miss_ == SelectSeq(RequiredColumns, LAMBDA c : c \notin cols)
       IN  /\ missing_cols' = miss_
           /\ pc' = IF miss_ # <<>> THEN "missing_columns" ELSE "score_rows"
    /\ scr_i' = 1
    /\ rows' = <<>>
    /\ UNCHANGED <<csv_columns, df>>
    /\ UNCHANGED <<gkVars, ruleVars, bucketVars, sendVars, splitVars>>

\* one iteration of `for i, row in df.iterrows()` (lines 546-571)
ScreenRow ==
    /\ pc = "score_rows"
    /\ scr_i <= Len(df)
    /\ LET row == df[scr_i]
       IN  IF TotalMonthsRaises(row) \/ AgeShownRaises(row)
           THEN /\ pc' = "screen_aborted"
                /\ UNCHANGED <<scr_i, rows>>
           ELSE /\ rows' = Append(rows, OutputRow(row, pass_cut))
                /\ scr_i' = scr_i + 1
                /\ UNCHANGED pc
    /\ UNCHANGED <<csv_columns, missing_cols, df>>
    /\ UNCHANGED <<gkVars, ruleVars, bucketVars, sendVars, splitVars>>

\* lines 572-573
SortOut ==
    /\ pc = "score_rows"
    /\ scr_i > Len(df)
    /\ \E o \in SortValuesDescending(rows) :
          out' = [i \in 1..Len(o) |-> [o[i] EXCEPT !.email = clean_email(@)]]
    /\ pc' = "screened"
    /\ UNCHANGED <<send_i, logs, sent, failed, skipped, attempts>>
    /\ UNCHANGED <<gkVars, ruleVars, bucketVars, screenVars, splitVars>>

NextScreen == Ingest \/ ScreenRow \/ SortOut

ScreenStart ==
    /\ pc = "ingest"
    /\ missing_cols = <<>>
    /\ scr_i = 0
    /\ rows = <<>>
    /\ final_priority = 0
    /\ pass_cut = 50000
    /\ bucket = "none"
    /\ GKIdle
    /\ RuleIdle
    /\ SendIdle
    /\ SplitIdle

InputRow(id, y, m, a, f) ==
    [candidate_id |-> id, email |-> <<"a", "@", "b", ".", "c", "o">>,
     years_experience |-> y, months_experience |-> m, age |-> a, final |-> f]

(***************************************************************************)
(* Specification SpecIngest: the screening run over a CSV with any set of  *)
(* columns and one well-formed row.                                        *)
(***************************************************************************)
InitIngest ==
    /\ csv_columns \in SUBSET AllColumns
    /\ df = <<InputRow(1, Num(1), Num(0), Num(24), 60000)>>
    /\ ScreenStart

SpecIngest == InitIngest /\ [][NextScreen]_vars

(***************************************************************************)
(* Specification SpecScreen: the screening run over a CSV with every       *)
(* column and up to MaxRows rows whose cells are numbers, empty (NaN) or   *)
(* text, and whose `final` is at, next to or away from pass_cut.           *)
(***************************************************************************)
CellProfiles ==
    {<<Num(1), Num(0), Num(24)>>,
     <<Num(1), Num(0), TextCell>>,
     <<NaNCell, Num(0), Num(24)>>,
     <<TextCell, Num(6), NaNCell>>}

Finals == {49994, 49996, 50000}

InitScreen ==
    /\ csv_columns = AllColumns
    /\ df \in UNION {{[i \in 1..n |->
                          InputRow(i, t[i][1][1], t[i][1][2], t[i][1][3], t[i][2])] :
                        t \in [1..n -> CellProfiles \X Finals]} : n \in 1..MaxRows}
    /\ ScreenStart

SpecScreen == InitScreen /\ [][NextScreen]_vars

(***************************************************************************)
(* Specification SpecSkills: split_skills on any skills string of up to    *)
(* MaxSkillLen characters over the characters of the configured skill      *)
(* tokens, the comma, the blank and an upper-case letter.                  *)
(***************************************************************************)
\* every must-have and nice-to-have token of DEPARTMENTS_CFG
ConfiguredSkillTokens ==
    UNION {Range(DEPARTMENTS_CFG[d].must_have_skills)
             \cup Range(DEPARTMENTS_CFG[d].nice_to_have_skills) : d \in Departments}

SkillAlphabet ==
    UNION {Range(t) : t \in ConfiguredSkillTokens} \cup {",", " ", "P"}

SkillStrings == SeqsUpTo(SkillAlphabet, MaxSkillLen)

InitSkills ==
    /\ pc = "split_call"
    /\ skills_in \in SkillStrings
    /\ toks = <<>>
    /\ GKIdle
    /\ RuleIdle
    /\ BucketIdle
    /\ SendIdle
    /\ ScreenIdle

\* line 398: split_skills(row.get("skills", ""))
SplitCall ==
    /\ pc = "split_call"
    /\ toks' = split_skills(skills_in)
    /\ pc' = "split_done"
    /\ UNCHANGED <<skills_in, gkVars, ruleVars, bucketVars, sendVars, screenVars>>

NextSkills == SplitCall

SpecSkills == InitSkills /\ [][NextSkills]_vars

(***************************************************************************)
(* Specification SpecKnock: rule_score for the Programmer department on    *)
(* rows whose resume text is any text of up to MaxBlobLen characters over  *)
(* the knockout alphabet: the department phrases s (also a global soft     *)
(* phrase, as in the source) and k, the hard phrase h, the mitigating term *)
(* m and e, with which the whitelist phrases esm and em are spelled.       *)
(***************************************************************************)
KnockAlphabet == {"s", "k", "h", "m", "e"}

InitKnock ==
    /\ pc = "row"
    /\ dept_cfg = DEPARTMENTS_CFG.Programmer
    /\ rec \in Rows({Num(1)}, {Num(0)}, {<<"b", "a">>}, {<<"p">>},
                    SeqsUpTo(KnockAlphabet, MaxBlobLen), {<<>>}, {Num(24)})
    /\ mcfg = DEFAULT_BASE
    /\ res = NoRes
    /\ prev = NoRes
    /\ added = <<>>
    /\ GKIdle
    /\ BucketIdle
    /\ SendIdle
    /\ ScreenIdle
    /\ SplitIdle

SpecKnock == InitKnock /\ [][NextRule]_vars

(***************************************************************************)
(* Claims about _apply_global_knockout (checked under SpecGK).             *)
(***************************************************************************)
CfgCap == Get(gcfg, "global_knockout_cap", DEFAULT_RULES.global_knockout_cap)
CfgMitigation == Get(gcfg, "global_mitigation", DEFAULT_RULES.global_mitigation)
CfgFactor == Get(CfgMitigation, "mitigation_factor", 50)
CfgWhitelist == Get(CfgMitigation, "whitelist_phrases", <<>>)
CfgPhrases == Get(gcfg, "global_knockout", DEFAULT_RULES.global_knockout)

\* Some whitelist phrase occurs in the blob.
WhitelistInBlob ==
    \E i \in 1..Len(CfgWhitelist) : Contains(blob, normalize_text(CfgWhitelist[i]))

\* The (tier, phrase) pairs whose non-empty normalized phrase occurs in the blob.
MatchingPhrases ==
    LET all == UNION {{<<lv, normalize_text(Get(CfgPhrases, lv, <<>>)[j])>> :
                          j \in 1..Len(Get(CfgPhrases, lv, <<>>))} :
                      lv \in {"hard", "soft", "review"}}
    IN  {m \in all : m[2] # <<>> /\ Contains(blob, m[2])}

\* C2: the penalty _apply_global_knockout returns is never below the
\* configured cap, whatever phrases hit and whatever the weights are.
C2_PenaltyAtLeastCap ==
    pc = "gk_done" => gk.penalty >= CfgCap

\* C2 witness: several hits summed below the cap and were clamped to it.
C2_Witness ==
    /\ pc = "gk_done"
    /\ CfgCap < 0
    /\ Len(gk.added) >= 2
    /\ \A i \in 1..Len(gk.added) : gk.added[i].weight < 0
    /\ gk.raw < CfgCap
    /\ gk.penalty = CfgCap

\* C3: when a whitelist phrase occurs anywhere in the blob, every matching
\* knockout phrase of every tier is recorded as a whitelisted hit and nothing
\* is added to the penalty, wherever the match is and whatever is near it.
C3_WhitelistTotal ==
    (pc = "gk_done" /\ WhitelistInBlob) =>
        /\ gk.added = <<>>
        /\ gk.raw = 0
        /\ \A i \in 1..Len(gk.hits) : gk.hits[i].tag = "whitelist"
        /\ \A m \in MatchingPhrases :
              \E i \in 1..Len(gk.hits) :
                  gk.hits[i].level = m[1] /\ gk.hits[i].p = m[2]

\* C3 witness: a whitelist phrase is in the blob together with a hard phrase
\* and a mitigating term; the hard and the soft hit are recorded as
\* whitelisted.
C3_Witness ==
    /\ pc = "gk_done"
    /\ WhitelistInBlob
    /\ Contains(blob, <<"m">>)
    /\ \E i \in 1..Len(gk.hits) :
          gk.hits[i].level = "hard" /\ gk.hits[i].tag = "whitelist"
    /\ \E i \in 1..Len(gk.hits) :
          gk.hits[i].level = "soft" /\ gk.hits[i].tag = "whitelist"

\* C4: whenever mitigation is applied to a hit, the weight added for it lies
\* between the tier's full negative weight and zero; a non-negative tier
\* weight is never scaled.  Stated for every configured factor.
C4_MitigationTowardZero ==
    pc = "gk_done" =>
        \A i \in 1..Len(gk.added) :
            LET a == gk.added[i]
            IN  /\ a.mitigated => (a.full < 0 /\ a.full <= a.weight /\ a.weight <= 0)
                /\ a.full >= 0 => (~a.mitigated /\ a.weight = a.full)

\* The same statement for factors between 0 and 1 only.
C4_TowardZeroForUnitFactor ==
    (CfgFactor >= 0 /\ CfgFactor <= 100) => C4_MitigationTowardZero

\* A mitigated hit under the source's factor 0.5.
C4_Witness ==
    /\ pc = "gk_done"
    /\ CfgFactor = 50
    /\ \E i \in 1..Len(gk.added) :
          gk.added[i].mitigated /\ gk.added[i].full < gk.added[i].weight
            /\ gk.added[i].weight < 0

(***************************************************************************)
(* Claims about rule_score and the merged policy (SpecRule, SpecAct).      *)
(***************************************************************************)
Scored == pc \in {"scored", "added"}

\* the sum of the deltas the rules in `rules` added
DeltaSum(r, rules) ==
    LET F[i \in 0..Len(r.deltas)] ==
            IF i = 0 THEN 0
            ELSE IF r.deltas[i].rule \in rules THEN F[i-1] + r.deltas[i].d ELSE F[i-1]
    IN  F[Len(r.deltas)]

\* how many deltas the rules in `rules` added
DeltaCount(r, rules) ==
    Cardinality({i \in 1..Len(r.deltas) : r.deltas[i].rule \in rules})

MustRules == {"must_missing", "must_all"}
PenaltyRules == {"global_knockout", "dept_knockout", "training_ctx"}

\* C1 as stated: adding a missing must-have skill never lowers rule_score.
C1_AddSkillNeverLowers ==
    pc = "added" => res.score >= prev.score

\* C1 amended: adding a missing must-have skill never lowers the
\* must-have-skills contribution (it stays must_missing while a must-have
\* skill is missing and becomes must_all when none is), and never lowers
\* rule_score when the total experience is not below max(0.5, min_years/2)
\* and the knockout and training-context penalties are the same as before.
C1_MustHaveMonotone ==
    pc = "added" =>
        /\ DeltaSum(res, MustRules) >= DeltaSum(prev, MustRules)
        /\ DeltaCount(res, {"must_all"}) = 1 <=> MissingSkills(rec, mcfg) = {}
        /\ DeltaCount(res, {"must_missing"}) = 1 <=> MissingSkills(rec, mcfg) # {}
        /\ (/\ ~FLt(RowTotal(rec), Float(LowExp(mcfg)))
            /\ DeltaSum(res, PenaltyRules) = DeltaSum(prev, PenaltyRules))
           => res.score >= prev.score

\* C1 witness: the last missing must-have skill was added to a record with
\* enough experience, and the score rose from must_missing to must_all.
C1_Witness ==
    /\ pc = "added"
    /\ DeltaCount(prev, {"must_missing"}) = 1
    /\ DeltaCount(res, {"must_all"}) = 1
    /\ ~FLt(RowTotal(rec), Float(LowExp(mcfg)))
    /\ res.score > prev.score

ActivityDelta == DeltaSum(res, {"activity"})
CfgMaxBonus == Get(mcfg, "max_activity_bonus", DEFAULT_RULES.max_activity_bonus)
ActsHaveTrainingIndicator ==
    \E i \in 1..Len(TrainingIndicators(mcfg)) :
        Contains(normalize_text(rec.activities),
                 normalize_text(TrainingIndicators(mcfg)[i]))

\* C5: the activity bonus added to the score is at most max_activity_bonus,
\* and it is 0 whenever the normalized activities text holds a training
\* indicator (then only a reason is emitted).
C5_ActivityBonusCapped ==
    Scored =>
        /\ \A i \in 1..Len(res.deltas) :
              res.deltas[i].rule = "activity" => res.deltas[i].d <= CfgMaxBonus
        /\ DeltaCount(res, {"activity"}) <= 1
        /\ ActsHaveTrainingIndicator =>
              (ActivityDelta = 0 /\ DeltaCount(res, {"activity"}) = 0)

\* C5 witness: the matched weights sum above the cap and the cap is added.
C5_Witness ==
    /\ pc = "scored"
    /\ Len(res.reasons[Len(res.reasons)].d) >= 2
    /\ res.reasons[Len(res.reasons)].g = "activity"
    /\ CfgMaxBonus = 50
    /\ ActivityDelta = CfgMaxBonus

\* C6: exactly one of exp_under and exp_meet is applied; exp_meet when
\* years + months/12 >= min_years_experience, exp_under otherwise.
C6_ExperienceExclusive ==
    Scored =>
        LET ge == FGe(RowTotal(rec), Float(12 * mcfg.min_years_experience))
        IN  /\ DeltaCount(res, {"exp_under", "exp_meet"}) = 1
            /\ ge => DeltaCount(res, {"exp_meet"}) = 1
            /\ ~ge => DeltaCount(res, {"exp_under"}) = 1

\* The same for records whose experience cells are numbers.
C6_ExclusiveForNumbers ==
    ~RowTotal(rec).nan => C6_ExperienceExclusive

ReasonRank(g) ==
    CASE g \in {"exp_under", "exp_meet"} -> 1
      [] g = "edu_under" -> 2
      [] g \in {"must_missing", "must_all"} -> 3
      [] g = "global_knockout" -> 4
      [] g = "dept_knockout" -> 5
      [] g = "training_ctx" -> 6
      [] g = "nice" -> 7
      [] g = "low_exp_skill" -> 8
      [] g \in {"age_out", "age_in", "age_unspecified"} -> 9
      [] g \in {"activity", "activity_training"} -> 10

\* C8: the reasons list is ordered by rule group: experience, education,
\* must-have skills, global knockout, department knockout, training context,
\* nice-to-have, low-experience inconsistency, age, activity.
C8_ReasonsOrdered ==
    Scored =>
        \A i, j \in 1..Len(res.reasons) :
            i < j => ReasonRank(res.reasons[i].g) <= ReasonRank(res.reasons[j].g)

\* C8 witness: one record draws a reason of every one of the ten groups.
C8_Witness ==
    /\ Scored
    /\ {ReasonRank(res.reasons[i].g) : i \in 1..Len(res.reasons)} = 1..10

\* C9: in the merged policy every key of the selected department's
\* configuration has the department's value and every other key has the
\* value of the defaults.
C9_DepartmentWins ==
    Scored =>
        /\ \A k \in DOMAIN dept_cfg : mcfg[k] = dept_cfg[k]
        /\ \A k \in DOMAIN DEFAULT_RULES \ DOMAIN dept_cfg : mcfg[k] = DEFAULT_RULES[k]
        /\ \A k \in DOMAIN DEFAULT_BASE \ DOMAIN dept_cfg : mcfg[k] = DEFAULT_BASE[k]
        /\ DOMAIN mcfg = DOMAIN dept_cfg \cup DOMAIN DEFAULT_RULES \cup DOMAIN DEFAULT_BASE

\* C9 witness: a department without knockout_phrases was merged; its cap and
\* table replaced the defaults' and the key it lacks is absent.
C9_Witness ==
    /\ Scored
    /\ "knockout_phrases" \notin DOMAIN dept_cfg
    /\ mcfg.max_activity_bonus = 60
    /\ mcfg.max_activity_bonus # DEFAULT_RULES.max_activity_bonus
    /\ mcfg.rule_weights = DEFAULT_RULES.rule_weights

(***************************************************************************)
(* Claims about bucket_level (SpecBucket) and the batch send (SpecSend).   *)
(***************************************************************************)
\* C7: bucket_level returns the pass label exactly when
\* final_priority >= pass_cut (a tie passes); otherwise the fail label.
C7_BucketPassIff ==
    pc = "bucketed" =>
        /\ bucket \in {"pass", "fail"}
        /\ bucket = "pass" <=> final_priority >= pass_cut

\* C7 witness: final_priority equals pass_cut and the label is pass.
C7_Witness ==
    /\ pc = "bucketed"
    /\ final_priority = pass_cut
    /\ bucket = "pass"

\* C10: the batch send never aborts: whatever each delivery attempt does,
\* the loop visits every row and ends with one log entry per row, each SENT,
\* FAILED or SKIPPED, so sent + failed + skipped is the number of rows.
C10_BatchSendCompletes ==
    /\ pc # "send_aborted"
    /\ pc = "send_done" =>
          /\ Len(logs) = Len(out)
          /\ sent + failed + skipped = Len(out)
          /\ \A i \in 1..Len(logs) : logs[i].status \in {"SENT", "FAILED", "SKIPPED"}

\* What holds of the loop when it does end: one entry per row.
SendDoneLogsEveryRow ==
    pc = "send_done" =>
        /\ Len(logs) = Len(out)
        /\ sent + failed + skipped = Len(out)

(***************************************************************************)
(* Claims about the notification section (SpecNotify).                     *)
(***************************************************************************)
\* C11: _send_email is called only with an address is_valid_email accepts:
\* never with an empty, malformed or demo-domain address, on the batch send
\* and on the single-row test send alike.
C11_SendOnlyToValid ==
    \A i \in 1..Len(attempts) : is_valid_email(attempts[i])

\* The batch send alone never attempts a delivery to a rejected address.
BatchSendOnlyToValid ==
    pc \in {"send_loop", "send_done"} =>
        \A i \in 1..Len(attempts) : is_valid_email(attempts[i])

(***************************************************************************)
(* Claims about the screening run (SpecIngest, SpecScreen).                *)
(***************************************************************************)
LackingRequired == {c \in Range(RequiredColumns) : c \notin csv_columns}

\* C12: when the CSV lacks any of the seven required columns, activities
\* included, the run ends in the missing-columns error, which names every
\* missing required column, and no row is scored.
C12_MissingColumnIsError ==
    (pc # "ingest" /\ LackingRequired # {}) =>
        /\ pc = "missing_columns"
        /\ Range(missing_cols) = LackingRequired
        /\ rows = <<>>
        /\ out = <<>>

\* C12 amended: when the CSV lacks any of the six required columns other
\* than activities, the run ends in the missing-columns error, which names
\* exactly those missing columns, and no row is scored; a CSV that lacks
\* activities has the column defaulted, it is never named in the error, and
\* when nothing else is missing the rows are scored.
C12_MissingColumnIsErrorButActivities ==
    pc # "ingest" =>
        /\ LackingRequired \ {"activities"} # {} =>
              /\ pc = "missing_columns"
              /\ Range(missing_cols) = LackingRequired \ {"activities"}
              /\ rows = <<>>
              /\ out = <<>>
        /\ LackingRequired \ {"activities"} = {} =>
              /\ pc \in {"score_rows", "screened"}
              /\ missing_cols = <<>>

\* C12 witness: the CSV lacks activities and two other required columns;
\* the error names the two and not activities.
C12_Witness ==
    /\ pc = "missing_columns"
    /\ "activities" \in LackingRequired
    /\ missing_cols = <<"candidate_id", "skills">>
    /\ rows = <<>>

\* C13: no row aborts the screening loop, whatever its years_experience,
\* months_experience and age cells hold, and the run yields one output row
\* per input row.
C13_NoRowAborts ==
    /\ pc # "screen_aborted"
    /\ pc = "screened" => Len(out) = Len(df)

\* A run that is not aborted yields one output row per input row.
ScreenedKeepsEveryRow ==
    pc = "screened" =>
        /\ Len(out) = Len(df)
        /\ {out[i].candidate_id : i \in 1..Len(out)} = 1..Len(df)

OutDescending ==
    \A i, j \in 1..Len(out) : i < j => out[i].final_priority >= out[j].final_priority

\* C15: the output table is sorted by final priority, descending, and rows
\* of equal final priority keep their input order.
C15_SortedStable ==
    pc = "screened" =>
        /\ OutDescending
        /\ \A i, j \in 1..Len(out) :
              (i < j /\ out[i].final_priority = out[j].final_priority)
                  => out[i].candidate_id < out[j].candidate_id

\* The descending half of C15 alone.
SortedDescending ==
    pc = "screened" => OutDescending

\* C16: in every output row predicted_level is the pass label exactly when
\* the displayed final_priority (rounded to 4 decimals) is >= pass_cut, and
\* no fail-labelled row is above a pass-labelled row.
C16_LabelAgreesWithShown ==
    pc = "screened" =>
        /\ \A i \in 1..Len(out) :
              out[i].predicted_level = "pass" <=> out[i].final_priority >= pass_cut
        /\ \A i, j \in 1..Len(out) :
              i < j => ~(out[i].predicted_level = "fail" /\ out[j].predicted_level = "pass")

\* C16 amended: predicted_level is the pass label exactly when the unrounded
\* final of the row is >= pass_cut.  A pass-labelled row always shows a
\* final_priority >= pass_cut; a fail-labelled row shows one >= pass_cut only
\* when its final is within 0.00005 below pass_cut, and then it shows exactly
\* pass_cut; a fail-labelled row is above a pass-labelled row only when the
\* two show the same final_priority.
C16_LabelFromUnroundedFinal ==
    pc = "screened" =>
        /\ \A i \in 1..Len(out) :
              LET src == df[out[i].candidate_id]
              IN  /\ out[i].predicted_level = "pass" <=> src.final >= pass_cut
                  /\ out[i].predicted_level = "pass" => out[i].final_priority >= pass_cut
                  /\ (out[i].predicted_level = "fail" /\ out[i].final_priority >= pass_cut)
                        => (out[i].final_priority = pass_cut /\ src.final >= pass_cut - 5)
        /\ \A i, j \in 1..Len(out) :
              (i < j /\ out[i].predicted_level = "fail" /\ out[j].predicted_level = "pass")
                  => out[i].final_priority = out[j].final_priority

\* C16 witness: a fail-labelled row that shows final_priority = pass_cut is
\* above a pass-labelled row.
C16_Witness ==
    /\ pc = "screened"
    /\ \E i, j \in 1..Len(out) :
          /\ i < j
          /\ out[i].predicted_level = "fail"
          /\ out[i].final_priority = pass_cut
          /\ out[j].predicted_level = "pass"

(***************************************************************************)
(* Claims about non-numeric cells in rule_score (SpecCells).               *)
(***************************************************************************)
AgeRules == {"age_out", "age_in"}

\* the record with its non-numeric text cells replaced as the claim says
TextAsZero(x) == IF x.k = "text" THEN Num(0) ELSE x
TextAsSentinel(x) == IF x.k = "text" THEN Num(-1) ELSE x
ExperienceCoerced(row) ==
    [row EXCEPT !.years_experience = TextAsZero(@),
                !.months_experience = TextAsZero(@)]
AllCoerced(row) == [ExperienceCoerced(row) EXCEPT !.age = TextAsSentinel(@)]

\* C14: rule_score treats a non-numeric years_experience or
\* months_experience as 0 and a non-numeric age as the unspecified sentinel:
\* the age rule changes the score by nothing and emits the not-counted note.
C14_NonNumericCoerced ==
    Scored =>
        /\ res = rule_score(AllCoerced(rec), mcfg)
        /\ rec.age.k = "text" =>
              /\ DeltaCount(res, AgeRules) = 0
              /\ \E i \in 1..Len(res.reasons) : res.reasons[i].g = "age_unspecified"

\* The experience half of C14 alone.
TextExperienceIsZero ==
    Scored => res = rule_score(ExperienceCoerced(rec), mcfg)

(***************************************************************************)
(* Claims about split_skills and the configured skill tokens (SpecSkills). *)
(***************************************************************************)
\* C17: every must-have and nice-to-have token of every department is
\* attainable: some skills string has it in its split_skills result.
C17_EveryTokenAttainable ==
    pc = "split_done" =>
        \A t \in ConfiguredSkillTokens :
            \E sk \in SkillStrings : t \in Range(split_skills(sk))

\* No token split_skills returns holds a delimiter, a blank at either end or
\* an upper-case letter, so a configured token that does is never matched.
SplitTokensAreClean ==
    pc = "split_done" =>
        \A k \in 1..Len(toks) :
            /\ toks[k] # <<>>
            /\ Range(toks[k]) \cap SkillDelimiters = {}
            /\ toks[k] = lower(strip(toks[k]))

\* Every configured token without a delimiter is returned for the skills
\* string that spells it.
DelimiterFreeTokenAttained ==
    (pc = "split_done" /\ skills_in \in ConfiguredSkillTokens
        /\ Range(skills_in) \cap SkillDelimiters = {}) => toks = <<skills_in>>

(***************************************************************************)
(* Claims about the department knockout rule (SpecKnock).                  *)
(***************************************************************************)
\* the department knockout phrases found in the blob of the record
DeptPhrasesFound ==
    LET ps == Get(mcfg, "knockout_phrases", <<>>)
    IN  {i \in 1..Len(ps) : Contains(RowBlob(rec, mcfg), normalize_text(ps[i]))}

KnockoutWeight == Get(RuleWeights(mcfg), "knockout", -200)

\* C18: each department knockout phrase found in the blob adds the full
\* knockout weight exactly once, whatever whitelist phrases and mitigating
\* terms the blob holds, whatever the global cap is and whether or not the
\* same phrase is a global knockout hit as well.
C18_DeptKnockoutIndependent ==
    Scored =>
        /\ DeltaCount(res, {"dept_knockout"}) = Cardinality(DeptPhrasesFound)
        /\ \A i \in 1..Len(res.deltas) :
              res.deltas[i].rule = "dept_knockout" => res.deltas[i].d = KnockoutWeight
        /\ DeltaSum(res, {"dept_knockout"}) = KnockoutWeight * Cardinality(DeptPhrasesFound)
        /\ \A i \in DeptPhrasesFound :
              Cardinality({j \in 1..Len(res.reasons) :
                              /\ res.reasons[j].g = "dept_knockout"
                              /\ res.reasons[j].d = <<mcfg.knockout_phrases[i]>>}) = 1

\* C18 witness: the phrase s is penalized as a mitigated global soft hit and
\* as a department knockout at full weight, and the global and department
\* contributions together are below global_knockout_cap.
C18_Witness ==
    /\ Scored
    /\ Contains(RowBlob(rec, mcfg), <<"m">>)
    /\ DeltaSum(res, {"global_knockout"}) < 0
    /\ \E j \in 1..Len(res.reasons) :
          res.reasons[j].g = "global_knockout" /\ <<"s">> \in Range(res.reasons[j].d)
    /\ \E j \in 1..Len(res.reasons) :
          res.reasons[j].g = "dept_knockout" /\ res.reasons[j].d = << <<"s">> >>
    /\ DeltaSum(res, {"global_knockout", "dept_knockout"}) < mcfg.global_knockout_cap

\* Reached as well: on a blob that holds a whitelist phrase the global
\* evaluator records its hit as whitelisted and adds nothing, while the
\* department knockout is applied at full weight.
DeptKnockoutDespiteWhitelistReached ==
    /\ Scored
    /\ \E i \in 1..Len(mcfg.global_mitigation.whitelist_phrases) :
          Contains(RowBlob(rec, mcfg), mcfg.global_mitigation.whitelist_phrases[i])
    /\ \E j \in 1..Len(res.reasons) : res.reasons[j].g = "global_knockout"
    /\ DeltaSum(res, {"global_knockout"}) = 0
    /\ DeltaSum(res, {"dept_knockout"}) <= KnockoutWeight

=============================================================================
